---- MODULE Spec2Model ----
(***************************************************************************)
(* mkversion.py: computes the version string of a checkout from the tag    *)
(* names, the branch names and the name of the current branch.             *)
(*                                                                         *)
(* A Python string is a sequence of one-character strings, so that the     *)
(* regular expressions, int(), str() and display() work on characters.     *)
(* A version is a 4-tuple; a slot of the tuple that is Python's None is    *)
(* the integer None (-1), which sorts below every component as None does   *)
(* in Python 2.  A function that returns Python's None in place of a tuple *)
(* returns NoMatch.                                                        *)
(***************************************************************************)
EXTENDS Integers, Sequences, FiniteSets, TLC

VARIABLES
    tags,            \* lines of the tags file (sys.argv[1])
    branches,        \* lines of the branches file (sys.argv[2])
    my_branch_name,  \* sys.argv[3]
    is_dev_branch,   \* keys of the dict is_dev_branch
    is_ga_tag,       \* keys of the dict is_ga_tag
    my_branch,       \* tuple of the current branch
    versions,        \* list of candidate tuples
    idx,             \* position of the running for loop in its list
    final_version,   \* best candidate so far
    stdout,          \* lines printed to standard output
    stderr,          \* lines printed to standard error
    exit_status,     \* None while running, then the exit status
    exit_line,       \* source line at which the run ended
    pc,              \* position in the script
    reads,           \* number of statements so far that tested membership in each dict
    call,            \* unit harness: the function applied and its arguments
    ret              \* unit harness: what it returned

vars == <<tags, branches, my_branch_name, is_dev_branch, is_ga_tag, my_branch,
          versions, idx, final_version, stdout, stderr, exit_status, exit_line,
          pc, reads, call, ret>>

\* ------------------------------------------------------------------ values

\* Python's None as a tuple slot, a regexp group or an unset variable.
None == -1

\* Python's None where a tuple was expected (process, is_same_base_version).
NoMatch == <<>>

\* m.group(i) of a group that took no part in the match.
NoGroup == <<"None">>

DEFAULT_MASTER_VERSION == <<3, None, None, None>>

\* ------------------------------------------------------------------ strings

Digits == <<"0", "1", "2", "3", "4", "5", "6", "7", "8", "9">>

IsDigit(c) == \E d \in 1..10 : Digits[d] = c

DigitVal(c) == (CHOOSE d \in 1..10 : Digits[d] = c) - 1

IsSpace(c) == c \in {" ", "\n", "\t"}

\* int(x) of a string of decimal digits.
RECURSIVE int(_)
int(x) ==
    IF Len(x) = 0 THEN 0
    ELSE int(SubSeq(x, 1, Len(x) - 1)) * 10 + DigitVal(x[Len(x)])

\* str(n) of a non-negative integer.
RECURSIVE str(_)
str(n) ==
    IF n < 10 THEN <<Digits[n + 1]>>
    ELSE str(n \div 10) \o <<Digits[(n % 10) + 1]>>

RECURSIVE lstrip(_)
lstrip(s) ==
    IF Len(s) > 0 /\ IsSpace(s[1]) THEN lstrip(Tail(s)) ELSE s

RECURSIVE rstrip(_)
rstrip(s) ==
    IF Len(s) > 0 /\ IsSpace(s[Len(s)]) THEN rstrip(SubSeq(s, 1, Len(s) - 1)) ELSE s

\* s.strip()
strip(s) == rstrip(lstrip(s))

\* s.endswith(t)
endswith(s, t) ==
    Len(s) >= Len(t) /\ SubSeq(s, Len(s) - Len(t) + 1, Len(s)) = t

\* ------------------------------------------------------------------ regexps

\* (\d+) is greedy: the position after the run of digits that starts at p.
RECURSIVE DigitsEnd(_, _)
DigitsEnd(s, p) ==
    IF p <= Len(s) /\ IsDigit(s[p]) THEN DigitsEnd(s, p + 1) ELSE p

\* (\.(\d+)|) at position p: the inner group and the position after it.
OptComponent(s, p) ==
    IF p + 1 <= Len(s) /\ s[p] = "." /\ IsDigit(s[p + 1])
    THEN [g |-> SubSeq(s, p + 1, DigitsEnd(s, p + 1) - 1), next |-> DigitsEnd(s, p + 1)]
    ELSE [g |-> NoGroup, next |-> p]

\* (\d+)(\.(\d+)|)(\.(\d+)|)(\.(\d+)|) at position p: groups 1, 3, 5, 7.
Components(s, p) ==
    LET e1 == DigitsEnd(s, p)
        o3 == OptComponent(s, e1)
        o5 == OptComponent(s, o3.next)
        o7 == OptComponent(s, o5.next)
    IN  [ok |-> e1 > p, g1 |-> SubSeq(s, p, e1 - 1), g3 |-> o3.g, g5 |-> o5.g,
         g7 |-> o7.g, next |-> o7.next]

\* The text from p that "$" accepts after it: "$" matches at the end of the
\* string and before a newline that ends it.
Remainder(s, p) ==
    IF Len(s) >= p /\ s[Len(s)] = "\n" THEN SubSeq(s, p, Len(s) - 1)
    ELSE SubSeq(s, p, Len(s))

NoMatchObject ==
    [ok |-> FALSE, group |-> [g \in {1, 3, 5, 7, 8} |-> NoGroup]]

MatchObject(c, g8) ==
    [ok |-> TRUE,
     group |-> [g \in {1, 3, 5, 7, 8} |->
                  IF g = 1 THEN c.g1 ELSE IF g = 3 THEN c.g3
                  ELSE IF g = 5 THEN c.g5 ELSE IF g = 7 THEN c.g7 ELSE g8]]

\* tag_regexp.match(s)
tag_regexp(s) ==
    IF Len(s) >= 1 /\ s[1] = "v"
    THEN LET c == Components(s, 2)
         IN  IF c.ok /\ Remainder(s, c.next) = <<"G", "A">>
             THEN MatchObject(c, <<"G", "A">>)
             ELSE NoMatchObject
    ELSE NoMatchObject

DevSuffixes ==
    {<<"-", "p", "a", "t", "c", "h">>, <<".", "n", "e", "x", "t">>, <<".", "x">>}

\* The "/" that "^.*/" ends at: the last one, since nothing after it in the
\* pattern matches a "/"; 0 when there is none.
LastSlash(s) ==
    IF \E k \in 1..Len(s) : s[k] = "/"
    THEN CHOOSE k \in 1..Len(s) : s[k] = "/" /\ \A j \in (k + 1)..Len(s) : s[j] # "/"
    ELSE 0

\* branch_regexp.match(s)
branch_regexp(s) ==
    LET k == LastSlash(s)
    IN  IF k > 0 /\ \A j \in 1..(k - 1) : s[j] # "\n"
        THEN LET c == Components(s, k + 1)
                 r == Remainder(s, c.next)
             IN  IF c.ok /\ r \in DevSuffixes \cup {<<>>}
                 THEN MatchObject(c, r)
                 ELSE NoMatchObject
        ELSE NoMatchObject

\* ------------------------------------------------------------------ process

\* The tuple process(m) builds from groups 1, 3, 5, 7 (lines 62-71).
VersionOf(m) ==
    LET slot(g) == IF m.group[g] = NoGroup THEN None ELSE int(m.group[g])
    IN  <<slot(1), slot(3), slot(5), slot(7)>>

\* process with a development suffix registered in is_ga_tag as well.
process_DevAsGa(m) ==
    IF ~m.ok
    THEN [result |-> NoMatch, is_dev_branch |-> is_dev_branch, is_ga_tag |-> is_ga_tag]
    ELSE [result |-> VersionOf(m),
          is_dev_branch |-> IF m.group[8] \in DevSuffixes
                            THEN is_dev_branch \cup {VersionOf(m)}
                            ELSE is_dev_branch,
          is_ga_tag |-> IF m.group[8] # <<>>
                        THEN is_ga_tag \cup {VersionOf(m)}
                        ELSE is_ga_tag]

\* process(m): what it returns and the two dicts as it leaves them.
process(m) ==
    IF ~m.ok
    THEN [result |-> NoMatch, is_dev_branch |-> is_dev_branch, is_ga_tag |-> is_ga_tag]
    ELSE [result |-> VersionOf(m),
          is_dev_branch |-> IF m.group[8] \in DevSuffixes
                            THEN is_dev_branch \cup {VersionOf(m)}
                            ELSE is_dev_branch,
          is_ga_tag |-> IF m.group[8] = <<"G", "A">>
                        THEN is_ga_tag \cup {VersionOf(m)}
                        ELSE is_ga_tag]

\* ------------------------------------------------------------------ is_ga

\* The while loop of is_ga at Python index i (slot i + 1 of the tuple).
RECURSIVE is_ga_loop(_, _)
is_ga_loop(version, i) ==
    IF i > 0
    THEN IF version \in is_ga_tag THEN TRUE
         ELSE IF version[i + 1] # None /\ version[i + 1] > 0 THEN FALSE
         ELSE is_ga_loop([version EXCEPT ![i + 1] = None], i - 1)
    ELSE version \in is_ga_tag

\* is_ga without the test of line 83: positive slots are collapsed too.
is_ga_CollapseAll(version) ==
    \E k \in 1..4 : [j \in 1..4 |-> IF j > k THEN None ELSE version[j]] \in
                       {[j \in 1..4 |-> t[j]] : t \in is_ga_tag}

is_ga(version) == is_ga_loop(version, 3)

\* ------------------------------------------------------------------ is_same_base_version

\* The while loop of is_same_base_version at Python index i; falling out of
\* the loop returns Python's None.
RECURSIVE same_base_loop(_, _, _)
same_base_loop(ref, other, i) ==
    IF i < 4
    THEN IF ref[i + 1] = None
         THEN IF other[i + 1] # None THEN [ref EXCEPT ![i + 1] = other[i + 1] + 1]
              ELSE IF is_ga(other) THEN [ref EXCEPT ![i + 1] = 1]
              ELSE ref
         ELSE IF ref[i + 1] # other[i + 1] THEN NoMatch
         ELSE same_base_loop(ref, other, i + 1)
    ELSE NoMatch

\* is_same_base_version that copies other[i] without adding one.
RECURSIVE same_base_loop_NoIncrement(_, _, _)
same_base_loop_NoIncrement(ref, other, i) ==
    IF i < 4
    THEN IF ref[i + 1] = None
         THEN IF other[i + 1] # None THEN [ref EXCEPT ![i + 1] = other[i + 1]]
              ELSE IF is_ga(other) THEN [ref EXCEPT ![i + 1] = 1]
              ELSE ref
         ELSE IF ref[i + 1] # other[i + 1] THEN NoMatch
         ELSE same_base_loop_NoIncrement(ref, other, i + 1)
    ELSE NoMatch

is_same_base_version_NoIncrement(ref, other) == same_base_loop_NoIncrement(ref, other, 0)

\* is_same_base_version that reports no match for an other that neither
\* defines the slot nor is GA-resolved.
RECURSIVE same_base_loop_Strict(_, _, _)
same_base_loop_Strict(ref, other, i) ==
    IF i < 4
    THEN IF ref[i + 1] = None
         THEN IF other[i + 1] # None THEN [ref EXCEPT ![i + 1] = other[i + 1] + 1]
              ELSE IF is_ga(other) THEN [ref EXCEPT ![i + 1] = 1]
              ELSE NoMatch
         ELSE IF ref[i + 1] # other[i + 1] THEN NoMatch
         ELSE same_base_loop_Strict(ref, other, i + 1)
    ELSE NoMatch

is_same_base_version_Strict(ref, other) == same_base_loop_Strict(ref, other, 0)

is_same_base_version(ref, other) == same_base_loop(ref, other, 0)

\* Whether is_same_base_version(ref, other) reaches its call of is_ga (line 107).
RECURSIVE calls_is_ga(_, _, _)
calls_is_ga(ref, other, i) ==
    IF i < 4
    THEN IF ref[i + 1] = None THEN other[i + 1] = None
         ELSE IF ref[i + 1] # other[i + 1] THEN FALSE
         ELSE calls_is_ga(ref, other, i + 1)
    ELSE FALSE

\* ------------------------------------------------------------------ display

\* The for loop of display from slot k on, with the sep and v built so far.
RECURSIVE display_loop(_, _, _, _)
display_loop(version, k, sep, v) ==
    IF k > Len(version) THEN v
    ELSE IF version[k] = None THEN v
    ELSE IF version[k] = 0 THEN display_loop(version, k + 1, sep \o <<"0", ".">>, v)
    ELSE display_loop(version, k + 1, <<".">>, v \o sep \o str(version[k]))

\* display that forgets the zeros it passed: sep = '.' in place of sep += '0.'.
RECURSIVE display_loop_DropsZeros(_, _, _, _)
display_loop_DropsZeros(version, k, sep, v) ==
    IF k > Len(version) THEN v
    ELSE IF version[k] = None THEN v
    ELSE IF version[k] = 0 THEN display_loop_DropsZeros(version, k + 1, sep, v)
    ELSE display_loop_DropsZeros(version, k + 1, <<".">>, v \o sep \o str(version[k]))

display_DropsZeros(version) == display_loop_DropsZeros(version, 1, <<>>, <<>>)

\* display that renders a zero at once, like any other component.
RECURSIVE display_loop_Eager(_, _, _, _)
display_loop_Eager(version, k, sep, v) ==
    IF k > Len(version) THEN v
    ELSE IF version[k] = None THEN v
    ELSE display_loop_Eager(version, k + 1, <<".">>, v \o sep \o str(version[k]))

display_Eager(version) == display_loop_Eager(version, 1, <<>>, <<>>)

display(version) == display_loop(version, 1, <<>>, <<>>)

\* ------------------------------------------------------------------ sort

\* a < b on Python 2 tuples of the same length: the first differing slot
\* decides, and None is below every integer.
RECURSIVE tuple_less(_, _, _)
tuple_less(a, b, k) ==
    IF k > Len(a) THEN FALSE
    ELSE IF a[k] # b[k] THEN a[k] < b[k]
    ELSE tuple_less(a, b, k + 1)

\* v put into the ascending list l, after the entries equal to it.
RECURSIVE insert_sorted(_, _)
insert_sorted(l, v) ==
    IF Len(l) = 0 THEN <<v>>
    ELSE IF tuple_less(v, l[1], 1) THEN <<v>> \o l
    ELSE <<l[1]>> \o insert_sorted(Tail(l), v)

RECURSIVE sort_from(_, _)
sort_from(l, acc) ==
    IF Len(l) = 0 THEN acc ELSE sort_from(Tail(l), insert_sorted(acc, l[1]))

\* The list left as it was appended to.
unsorted(l) == l

\* versions.sort()
sorted(l) == sort_from(l, <<>>)

\* ------------------------------------------------------------------ inputs

\* Number of lines in the tags file and the branches file together.
MaxNames == 3

ORIGIN == <<"o", "r", "i", "g", "i", "n", "/">>

GA == <<"G", "A">>

NEXT == <<".", "n", "e", "x", "t">>

DOTX == <<".", "x">>

PATCH == <<"-", "p", "a", "t", "c", "h">>

MASTER == <<"m", "a", "s", "t", "e", "r">>

\* Lines of the tags file: v1GA, v1.2GA, v1.3GA, v2GA, v1.2.3.4GA with its
\* newline, and v1.2, which is no GA tag.
TagInputs ==
    {<<"v", "1">> \o GA,
     <<"v", "1", ".", "2">> \o GA,
     <<"v", "1", ".", "3">> \o GA,
     <<"v", "2">> \o GA,
     <<"v", "1", ".", "2", ".", "3", ".", "4">> \o GA \o <<"\n">>,
     <<"v", "1", ".", "2">>}

\* Lines of the branches file: origin/1.next, origin/1.2.x, origin/1.2.3,
\* origin/2, origin/1.2.3.4-patch with its newline, and origin/master.
BranchInputs ==
    {ORIGIN \o <<"1">> \o NEXT,
     ORIGIN \o <<"1", ".", "2">> \o DOTX,
     ORIGIN \o <<"1", ".", "2", ".", "3">>,
     ORIGIN \o <<"2">>,
     ORIGIN \o <<"1", ".", "2", ".", "3", ".", "4">> \o PATCH \o <<"\n">>,
     ORIGIN \o MASTER}

\* Names of the current branch: origin/1.next, origin/1.2.x, origin/1.2,
\* origin/2, origin/1.2.3.4-patch, origin/master, main, and origin/master
\* followed by a blank.
BranchNameInputs ==
    {ORIGIN \o <<"1">> \o NEXT,
     ORIGIN \o <<"1", ".", "2">> \o DOTX,
     ORIGIN \o <<"1", ".", "2">>,
     ORIGIN \o <<"2">>,
     ORIGIN \o <<"1", ".", "2", ".", "3", ".", "4">> \o PATCH,
     ORIGIN \o MASTER,
     <<"m", "a", "i", "n">>,
     ORIGIN \o MASTER \o <<" ">>}

NoCall == [fn |-> "none", args |-> <<>>]

NoReads == [is_dev_branch |-> 0, is_ga_tag |-> 0]

\* The script is started in its test mode (lines 129-133) on a tags file, a
\* branches file and a branch name.
Init ==
    /\ \E n \in 0..MaxNames : \E nt \in 0..n :
          /\ tags \in [1..nt -> TagInputs]
          /\ branches \in [1..(n - nt) -> BranchInputs]
    /\ my_branch_name \in BranchNameInputs
    /\ is_dev_branch = {}
    /\ is_ga_tag = {}
    /\ my_branch = NoMatch
    /\ versions = <<>>
    /\ idx = 1
    /\ final_version = NoMatch
    /\ stdout = <<>>
    /\ stderr = <<>>
    /\ exit_status = None
    /\ exit_line = None
    /\ pc = "start"
    /\ reads = NoReads
    /\ call = NoCall
    /\ ret = None

\* ------------------------------------------------------------------ the script

\* Lines 141-143 and 150: the branch is the master alias.
MasterAlias ==
    /\ pc = "start"
    /\ endswith(my_branch_name, <<"/">> \o MASTER)
    /\ my_branch' = DEFAULT_MASTER_VERSION
    /\ is_dev_branch' = is_dev_branch \cup {DEFAULT_MASTER_VERSION}
    /\ versions' = <<>>
    /\ idx' = 1
    /\ pc' = "tags"
    /\ UNCHANGED <<tags, branches, my_branch_name, is_ga_tag, final_version, stdout,
                   stderr, exit_status, exit_line, reads, call, ret>>

\* Lines 144-146 and 150: the branch name matches the branch regexp.
ParseMyBranch ==
    /\ pc = "start"
    /\ ~endswith(my_branch_name, <<"/">> \o MASTER)
    /\ LET p == process(branch_regexp(strip(my_branch_name)))
       IN  /\ p.result # NoMatch
           /\ my_branch' = p.result
           /\ is_dev_branch' = p.is_dev_branch
           /\ is_ga_tag' = p.is_ga_tag
    /\ versions' = <<>>
    /\ idx' = 1
    /\ pc' = "tags"
    /\ UNCHANGED <<tags, branches, my_branch_name, final_version, stdout, stderr,
                   exit_status, exit_line, reads, call, ret>>

\* Lines 144-148: the branch name does not match; "Bad branch: <name>" goes
\* to standard error and the run exits with status 1.
BadBranch ==
    /\ pc = "start"
    /\ ~endswith(my_branch_name, <<"/">> \o MASTER)
    /\ process(branch_regexp(strip(my_branch_name))).result = NoMatch
    /\ stderr' = Append(stderr, <<"B", "a", "d", " ", "b", "r", "a", "n", "c", "h", ":", " ">>
                                \o my_branch_name)
    /\ exit_status' = 1
    /\ exit_line' = 148
    /\ pc' = "done"
    /\ UNCHANGED <<tags, branches, my_branch_name, is_dev_branch, is_ga_tag, my_branch,
                   versions, idx, final_version, stdout, reads, call, ret>>

\* Lines 152-155: one pass of the loop over the tags.
ProcessTag ==
    /\ pc = "tags"
    /\ idx <= Len(tags)
    /\ LET p == process(tag_regexp(strip(tags[idx])))
       IN  /\ versions' = IF p.result # NoMatch THEN Append(versions, p.result) ELSE versions
           /\ is_dev_branch' = p.is_dev_branch
           /\ is_ga_tag' = p.is_ga_tag
    /\ idx' = idx + 1
    /\ UNCHANGED <<tags, branches, my_branch_name, my_branch, final_version, stdout,
                   stderr, exit_status, exit_line, pc, reads, call, ret>>

\* The test of line 160 without its test of is_ga_tag.
IsTerminal_DevOnly == my_branch \notin is_dev_branch

\* The test of line 160 with "or" for "and".
IsTerminal_Or == my_branch \notin is_dev_branch \/ my_branch \notin is_ga_tag

\* The test of line 160.
IsTerminal == my_branch \notin is_dev_branch /\ my_branch \notin is_ga_tag

\* The dicts line 160 tests: "and" tests is_ga_tag only when the branch is
\* not in is_dev_branch.
ReadsOfLine160 ==
    [is_dev_branch |-> reads.is_dev_branch + 1,
     is_ga_tag |-> reads.is_ga_tag + (IF my_branch \notin is_dev_branch THEN 1 ELSE 0)]

\* Lines 160-161 without the sys.exit(0) of line 162: the version is printed
\* and the run goes on to the branches.
EarlyExit_WithoutExit ==
    /\ pc = "tags"
    /\ idx > Len(tags)
    /\ IsTerminal
    /\ reads' = ReadsOfLine160
    /\ stdout' = Append(stdout, display(my_branch))
    /\ idx' = 1
    /\ pc' = "branches"
    /\ UNCHANGED <<tags, branches, my_branch_name, is_dev_branch, is_ga_tag, my_branch,
                   versions, final_version, stderr, exit_status, exit_line, call, ret>>

\* Lines 160-162, after the last tag: print the branch's own version, exit 0.
EarlyExit ==
    /\ pc = "tags"
    /\ idx > Len(tags)
    /\ IsTerminal
    /\ reads' = ReadsOfLine160
    /\ stdout' = Append(stdout, display(my_branch))
    /\ exit_status' = 0
    /\ exit_line' = 162
    /\ pc' = "done"
    /\ UNCHANGED <<tags, branches, my_branch_name, is_dev_branch, is_ga_tag, my_branch,
                   versions, idx, final_version, stderr, call, ret>>

\* Line 160, after the last tag: the test fails, on to the branches.
NoEarlyExit ==
    /\ pc = "tags"
    /\ idx > Len(tags)
    /\ ~IsTerminal
    /\ reads' = ReadsOfLine160
    /\ idx' = 1
    /\ pc' = "branches"
    /\ UNCHANGED <<tags, branches, my_branch_name, is_dev_branch, is_ga_tag, my_branch,
                   versions, final_version, stdout, stderr, exit_status, exit_line,
                   call, ret>>

\* Lines 165-168: one pass of the loop over the branches.
ProcessBranch ==
    /\ pc = "branches"
    /\ idx <= Len(branches)
    /\ LET p == process(branch_regexp(strip(branches[idx])))
       IN  /\ versions' = IF p.result # NoMatch THEN Append(versions, p.result) ELSE versions
           /\ is_dev_branch' = p.is_dev_branch
           /\ is_ga_tag' = p.is_ga_tag
    /\ idx' = idx + 1
    /\ UNCHANGED <<tags, branches, my_branch_name, my_branch, final_version, stdout,
                   stderr, exit_status, exit_line, pc, reads, call, ret>>

\* Lines 173-174, after the last branch.
SortVersions ==
    /\ pc = "branches"
    /\ idx > Len(branches)
    /\ final_version' = NoMatch
    /\ versions' = sorted(versions)
    /\ idx' = 1
    /\ pc' = "scan"
    /\ UNCHANGED <<tags, branches, my_branch_name, is_dev_branch, is_ga_tag, my_branch,
                   stdout, stderr, exit_status, exit_line, reads, call, ret>>

\* Line 176 for the candidate the loop is at.
Candidate == is_same_base_version(my_branch, versions[idx])

ReadsOfLine176 ==
    [reads EXCEPT !.is_ga_tag =
        @ + (IF calls_is_ga(my_branch, versions[idx], 0) THEN 1 ELSE 0)]

\* Lines 176-180: no match, and none before it.
ScanSkip ==
    /\ pc = "scan"
    /\ idx <= Len(versions)
    /\ Candidate = NoMatch
    /\ final_version = NoMatch
    /\ reads' = ReadsOfLine176
    /\ idx' = idx + 1
    /\ UNCHANGED <<tags, branches, my_branch_name, is_dev_branch, is_ga_tag, my_branch,
                   versions, final_version, stdout, stderr, exit_status, exit_line,
                   pc, call, ret>>

\* Lines 176-183: no match after a match ends the loop.
ScanBreak ==
    /\ pc = "scan"
    /\ idx <= Len(versions)
    /\ Candidate = NoMatch
    /\ final_version # NoMatch
    /\ reads' = ReadsOfLine176
    /\ pc' = "print"
    /\ UNCHANGED <<tags, branches, my_branch_name, is_dev_branch, is_ga_tag, my_branch,
                   versions, idx, final_version, stdout, stderr, exit_status, exit_line,
                   call, ret>>

\* Lines 176-185: a match.
ScanMatch ==
    /\ pc = "scan"
    /\ idx <= Len(versions)
    /\ Candidate # NoMatch
    /\ reads' = ReadsOfLine176
    /\ final_version' = Candidate
    /\ idx' = idx + 1
    /\ UNCHANGED <<tags, branches, my_branch_name, is_dev_branch, is_ga_tag, my_branch,
                   versions, stdout, stderr, exit_status, exit_line, pc, call, ret>>

\* Line 175: the list is exhausted.
ScanEnd ==
    /\ pc = "scan"
    /\ idx > Len(versions)
    /\ pc' = "print"
    /\ UNCHANGED <<tags, branches, my_branch_name, is_dev_branch, is_ga_tag, my_branch,
                   versions, idx, final_version, stdout, stderr, exit_status, exit_line,
                   reads, call, ret>>

\* Lines 189-192: fall back on the branch's own tuple, print, and end.
PrintFinal ==
    /\ pc = "print"
    /\ final_version' = IF final_version = NoMatch THEN my_branch ELSE final_version
    /\ stdout' = Append(stdout, display(final_version'))
    /\ exit_status' = 0
    /\ exit_line' = 192
    /\ pc' = "done"
    /\ UNCHANGED <<tags, branches, my_branch_name, is_dev_branch, is_ga_tag, my_branch,
                   versions, idx, stderr, reads, call, ret>>

Next ==
    \/ MasterAlias
    \/ ParseMyBranch
    \/ BadBranch
    \/ ProcessTag
    \/ EarlyExit
    \/ NoEarlyExit
    \/ ProcessBranch
    \/ SortVersions
    \/ ScanSkip
    \/ ScanBreak
    \/ ScanMatch
    \/ ScanEnd
    \/ PrintFinal

Spec == Init /\ [][Next]_vars

\* ------------------------------------------------------------------ the functions alone

\* Largest component of the tuples and names the functions are applied to.
MaxComp == 2

\* Largest component of the pairs is_same_base_version is applied to.
MaxPairComp == 1

Slots(n) == {None} \cup 0..n

Tuples(n) == {<<a, b, c, d>> : a \in Slots(n), b \in Slots(n), c \in Slots(n), d \in Slots(n)}

\* Keys is_ga_tag may hold when a function is called.
GaPool ==
    {<<1, None, None, None>>, <<1, 1, None, None>>, <<1, 1, 1, None>>, <<0, 0, None, None>>}

\* c[1].c[2]. ... as a string.
RECURSIVE dotted(_)
dotted(c) ==
    IF Len(c) = 1 THEN str(c[1])
    ELSE dotted(SubSeq(c, 1, Len(c) - 1)) \o <<".">> \o str(c[Len(c)])

CompLists == UNION {[1..k -> 0..MaxComp] : k \in 1..4}

\* Tag names of one to four components, and names with a leading zero, with
\* two digits, with no component, with no GA and with a fifth component.
UnitTagNames ==
    {<<"v">> \o dotted(c) \o GA : c \in CompLists}
    \cup {<<"v", "0", "1">> \o GA,
          <<"v", "1", "0", ".", "0">> \o GA,
          <<"v">> \o GA,
          <<"v", "1", ".", "2">>,
          <<"v", "1", ".", "2", ".", "3", ".", "4", ".", "5">> \o GA}

\* Branch names of one to four components with each suffix, and names with
\* leading zeros, with two digits, with no component and with no "/".
UnitBranchNames ==
    {ORIGIN \o dotted(c) \o x : c \in CompLists, x \in DevSuffixes \cup {<<>>}}
    \cup {ORIGIN \o <<"0", "0", "7">> \o DOTX,
          ORIGIN \o <<"1", "2">>,
          ORIGIN,
          ORIGIN \o DOTX,
          <<"1", ".", "2">>}

\* A fresh interpreter in which one function is about to be called:
\* is_ga_tag holds any keys of the pool.
InitUnit ==
    /\ tags = <<>>
    /\ branches = <<>>
    /\ my_branch_name = <<>>
    /\ is_dev_branch = {}
    /\ is_ga_tag \in SUBSET GaPool
    /\ my_branch = NoMatch
    /\ versions = <<>>
    /\ idx = 1
    /\ final_version = NoMatch
    /\ stdout = <<>>
    /\ stderr = <<>>
    /\ exit_status = None
    /\ exit_line = None
    /\ pc = "unit"
    /\ reads = NoReads
    /\ call = NoCall
    /\ ret = None

UnitFrame ==
    UNCHANGED <<tags, branches, my_branch_name, my_branch, versions, idx, final_version,
                stdout, stderr, exit_status, exit_line, pc, reads>>

CallIsGa ==
    /\ pc = "unit"
    /\ call = NoCall
    /\ \E version \in Tuples(MaxComp) :
          /\ call' = [fn |-> "is_ga", args |-> <<version>>]
          /\ ret' = is_ga(version)
    /\ UNCHANGED <<is_dev_branch, is_ga_tag>>
    /\ UnitFrame

CallIsSameBaseVersion ==
    /\ pc = "unit"
    /\ call = NoCall
    /\ \E ref \in Tuples(MaxPairComp), other \in Tuples(MaxPairComp) :
          /\ call' = [fn |-> "is_same_base_version", args |-> <<ref, other>>]
          /\ ret' = is_same_base_version(ref, other)
    /\ UNCHANGED <<is_dev_branch, is_ga_tag>>
    /\ UnitFrame

CallDisplay ==
    /\ pc = "unit"
    /\ call = NoCall
    /\ \E version \in Tuples(MaxComp) :
          /\ call' = [fn |-> "display", args |-> <<version>>]
          /\ ret' = display(version)
    /\ UNCHANGED <<is_dev_branch, is_ga_tag>>
    /\ UnitFrame

CallProcessTag ==
    /\ pc = "unit"
    /\ call = NoCall
    /\ \E name \in UnitTagNames :
          LET p == process(tag_regexp(strip(name)))
          IN  /\ call' = [fn |-> "process_tag", args |-> <<name>>]
              /\ ret' = p.result
              /\ is_dev_branch' = p.is_dev_branch
              /\ is_ga_tag' = p.is_ga_tag
    /\ UnitFrame

CallProcessBranch ==
    /\ pc = "unit"
    /\ call = NoCall
    /\ \E name \in UnitBranchNames :
          LET p == process(branch_regexp(strip(name)))
          IN  /\ call' = [fn |-> "process_branch", args |-> <<name>>]
              /\ ret' = p.result
              /\ is_dev_branch' = p.is_dev_branch
              /\ is_ga_tag' = p.is_ga_tag
    /\ UnitFrame

NextUnit ==
    \/ CallIsGa
    \/ CallIsSameBaseVersion
    \/ CallDisplay
    \/ CallProcessTag
    \/ CallProcessBranch

SpecUnit == InitUnit /\ [][NextUnit]_vars

\* ------------------------------------------------------------------ what the claims speak of

\* The current branch's name is the master alias of line 141.
NameIsMaster == endswith(my_branch_name, <<"/">> \o MASTER)

\* The match of the current branch's name against the branch grammar.
NameMatch == branch_regexp(strip(my_branch_name))

\* The tuples the tags file and the branches file parse to.
TagTuples ==
    {VersionOf(tag_regexp(strip(tags[k]))) :
        k \in {j \in 1..Len(tags) : tag_regexp(strip(tags[j])).ok}}

BranchTuples ==
    {VersionOf(branch_regexp(strip(branches[k]))) :
        k \in {j \in 1..Len(branches) : branch_regexp(strip(branches[j])).ok}}

\* The first slot of t that is None; 0 when t has none.
FirstNone(t) ==
    IF \E k \in 1..Len(t) : t[k] = None
    THEN CHOOSE k \in 1..Len(t) : t[k] = None /\ \A j \in 1..(k - 1) : t[j] # None
    ELSE 0

\* c agrees with ref on the slots below k.
SamePrefix(ref, c, k) == \A j \in 1..(k - 1) : c[j] = ref[j]

SetMax(S) == CHOOSE x \in S : \A y \in S : y <= x

\* The state a run ends in: one line on standard output and exit status 0, or
\* nothing on standard output and a nonzero exit status, the second exactly
\* when the name neither ends in "/master" nor matches the branch grammar.
C1_Outcome ==
    /\ pc # "done" => exit_status = None
    /\ pc = "done" =>
          /\ \/ Len(stdout) = 1 /\ exit_status = 0
             \/ stdout = <<>> /\ exit_status # None /\ exit_status # 0
          /\ (stdout = <<>> /\ exit_status # 0) <=> (~NameIsMaster /\ ~NameMatch.ok)

\* A bound on the steps a run has left, from the lengths of the lists its
\* loops walk.
StepsLeft ==
    LET n == Len(tags) + Len(branches)
    IN  CASE pc = "start" -> 7 + 2 * n + Len(branches)
          [] pc = "tags" -> 5 + n + Len(branches) + (Len(tags) + 1 - idx)
          [] pc = "branches" -> 3 + n + (Len(branches) + 1 - idx)
          [] pc = "scan" -> 2 + (Len(versions) + 1 - idx)
          [] pc = "print" -> 1
          [] OTHER -> 0

\* C1: every run ends, and ends in one of two ways: one line on standard
\* output and exit status 0, or nothing on standard output and a nonzero exit
\* status; the second happens exactly when the current branch's name neither
\* ends in "/master" nor matches the branch grammar.
C1_OneLineOrFailure ==
    /\ []C1_Outcome
    /\ [][StepsLeft' < StepsLeft /\ StepsLeft' >= 0]_vars

\* A run that failed on the name "origin/master " (a blank after the alias).
C1_Witness ==
    /\ pc = "done"
    /\ my_branch_name = ORIGIN \o MASTER \o <<" ">>
    /\ stdout = <<>>
    /\ exit_status = 1
    /\ Len(tags) + Len(branches) = 3

\* The current branch has no development suffix and its tuple is a GA tag.
PlainBranchOnGaTag ==
    /\ ~NameIsMaster
    /\ NameMatch.ok
    /\ NameMatch.group[8] = <<>>
    /\ VersionOf(NameMatch) \in TagTuples

\* tags = ["v2GA"], branches = [], current branch origin/2.
C2_Scenario ==
    /\ tags = <<<<"v", "2">> \o GA>>
    /\ branches = <<>>
    /\ my_branch_name = ORIGIN \o <<"2">>

\* C2 as claimed: a current branch with no development suffix whose tuple is
\* a recorded GA tag takes the early exit and prints its own version; in the
\* scenario the run prints "2".
C2_Original ==
    pc = "done" =>
       /\ PlainBranchOnGaTag => exit_line = 162 /\ stdout = <<display(my_branch)>>
       /\ C2_Scenario => stdout = <<<<"2">>>>

\* C2 as amended: a current branch with no development suffix whose tuple is
\* a recorded GA tag does not take the early exit; the run goes through the
\* scan, and where the tuple has an unspecified slot the run prints that slot
\* set to at least 1 and not the branch's own version; in the scenario the
\* run prints "2.1".
C2_GaTaggedBranchGetsSuccessor ==
    pc = "done" =>
       /\ PlainBranchOnGaTag =>
             /\ exit_line = 192
             /\ stdout = <<display(final_version)>>
             /\ FirstNone(my_branch) > 0 =>
                   /\ final_version[FirstNone(my_branch)] >= 1
                   /\ SamePrefix(my_branch, final_version, FirstNone(my_branch))
                   /\ stdout # <<display(my_branch)>>
       /\ C2_Scenario => stdout = <<<<"2", ".", "1">>>>

\* The scenario's run has ended.
C2_Witness ==
    /\ pc = "done"
    /\ C2_Scenario
    /\ PlainBranchOnGaTag
    /\ final_version = <<2, 1, None, None>>

\* The current branch has no development suffix and no tag parses to its tuple.
PlainBranchOffGaTags ==
    /\ ~NameIsMaster
    /\ NameMatch.ok
    /\ NameMatch.group[8] = <<>>
    /\ VersionOf(NameMatch) \notin TagTuples

\* C3: when, after the tags, the current branch's tuple is in neither dict,
\* the run prints display of that tuple and stops, whatever the tags that
\* leave the tuple out of the GA tags and whatever the branches: the branches
\* are never parsed.
C3_TerminalBranchPrintsItself ==
    pc = "done" =>
       /\ PlainBranchOffGaTags =>
             /\ stdout = <<display(VersionOf(NameMatch))>>
             /\ exit_status = 0
             /\ exit_line = 162
       /\ exit_line = 162 =>
             /\ PlainBranchOffGaTags
             /\ my_branch \notin is_dev_branch
             /\ my_branch \notin is_ga_tag
             /\ is_dev_branch = {}
             /\ \A k \in 1..Len(versions) : versions[k] \in TagTuples

\* origin/1.2 is current, a tag was parsed, and the branches hold origin/1.2.x,
\* a development name of the same tuple, and origin/1.2.3, a successor.
C3_Witness ==
    /\ pc = "done"
    /\ my_branch_name = ORIGIN \o <<"1", ".", "2">>
    /\ Len(tags) = 1
    /\ TagTuples # {}
    /\ branches = <<ORIGIN \o <<"1", ".", "2">> \o DOTX, ORIGIN \o <<"1", ".", "2", ".", "3">>>>
    /\ stdout = <<<<"1", ".", "2">>>>

\* The candidates that share the current branch's base and define slot k.
Successors(k) ==
    {c \in TagTuples \cup BranchTuples : SamePrefix(my_branch, c, k) /\ c[k] # None}

\* tags = ["v1.2GA"], branches = ["origin/1.next"], current branch origin/1.next.
C4_Scenario ==
    /\ tags = <<<<"v", "1", ".", "2">> \o GA>>
    /\ branches = <<ORIGIN \o <<"1">> \o NEXT>>
    /\ my_branch_name = ORIGIN \o <<"1">> \o NEXT

\* C4: without the early exit, with k the first unspecified slot of the
\* current branch's tuple: if some parsed tag or branch agrees with the tuple
\* below k and defines slot k, the run prints the tuple with slot k set to
\* one more than the largest such slot, which is above the slot of every tag
\* and branch of that base; in the scenario the run prints "1.3".
C4_HighestSuccessor ==
    pc = "done" /\ exit_line = 192 =>
       /\ FirstNone(my_branch) > 0 /\ Successors(FirstNone(my_branch)) # {} =>
             LET k == FirstNone(my_branch)
                 top == SetMax({c[k] : c \in Successors(k)})
             IN  /\ final_version = [my_branch EXCEPT ![k] = top + 1]
                 /\ stdout = <<display([my_branch EXCEPT ![k] = top + 1])>>
                 /\ \A c \in Successors(k) : final_version[k] > c[k]
       /\ C4_Scenario => stdout = <<<<"1", ".", "3">>>>

\* origin/1.next is current and the candidates 1.2, 1.3 and 1.2.3 gave 1.4.
C4_Witness ==
    /\ pc = "done"
    /\ exit_line = 192
    /\ my_branch = <<1, None, None, None>>
    /\ Cardinality(Successors(2)) = 3
    /\ stdout = <<<<"1", ".", "4">>>>

\* Candidate k of the sorted list gets a result from is_same_base_version.
Matches(k) == is_same_base_version(my_branch, versions[k]) # NoMatch

\* What a scan of every candidate that keeps the last match would leave.
FullScan ==
    IF \E k \in 1..Len(versions) : Matches(k)
    THEN is_same_base_version(my_branch,
            versions[SetMax({k \in 1..Len(versions) : Matches(k)})])
    ELSE my_branch

\* C10: once the candidates are sorted (ascending, None lowest), those that
\* get a result from is_same_base_version for the current branch are next to
\* each other, and the scan that stops at the first failure after a match
\* ends with the version a scan of every candidate would end with.
C10_MatchesContiguous ==
    (pc \in {"scan", "print"} \/ (pc = "done" /\ exit_line = 192)) =>
       /\ \A k \in 1..(Len(versions) - 1) : ~tuple_less(versions[k + 1], versions[k], 1)
       /\ \A a \in 1..Len(versions), b \in 1..Len(versions), c \in 1..Len(versions) :
             a < b /\ b < c /\ Matches(a) /\ Matches(c) => Matches(b)
       /\ pc = "done" => final_version = FullScan

\* A run whose scan skipped a candidate, matched the next and stopped at the
\* third.
C10_Witness ==
    /\ pc = "done"
    /\ exit_line = 192
    /\ Len(versions) = 3
    /\ ~Matches(1)
    /\ Matches(2)
    /\ ~Matches(3)
    /\ idx = 3

\* The last nonzero slot of t before its first None; 0 when there is none.
LastNonzero(t) ==
    LET stop == IF FirstNone(t) = 0 THEN Len(t) + 1 ELSE FirstNone(t)
        nonzero == {k \in 1..(stop - 1) : t[k] # 0}
    IN  IF nonzero = {} THEN 0 ELSE SetMax(nonzero)

\* The decimal renderings of t[1..k] joined by dots; empty when k = 0.
DotJoin(t, k) == IF k = 0 THEN <<>> ELSE dotted(SubSeq(t, 1, k))

\* C5: display(t) is the dot-joined decimal rendering of the slots of t up to
\* the last nonzero slot before the first None, empty when there is none: it
\* stops at the first None, keeps a zero that a nonzero slot follows and never
\* ends in a zero component; (1,0,2,None) gives "1.0.2", (1,0,None,None)
\* gives "1", (1,2,0,0) gives "1.2" and (None,None,None,None) gives "".
C5_DisplayForm ==
    /\ call.fn = "display" =>
          /\ ret = DotJoin(call.args[1], LastNonzero(call.args[1]))
          /\ ret # <<"0">>
          /\ ~endswith(ret, <<".", "0">>)
    /\ display(<<1, 0, 2, None>>) = <<"1", ".", "0", ".", "2">>
    /\ display(<<1, 0, None, None>>) = <<"1">>
    /\ display(<<1, 2, 0, 0>>) = <<"1", ".", "2">>
    /\ display(<<None, None, None, None>>) = <<>>

\* display was applied to (1,0,2,None).
C5_Witness ==
    /\ call.fn = "display"
    /\ call.args[1] = <<1, 0, 2, None>>
    /\ ret = <<"1", ".", "0", ".", "2">>

\* The name the unit harness parsed, display of the tuple it got put back
\* between the fixed prefix and suffix of the name's grammar, parsed again.
Reparsed ==
    LET name == strip(call.args[1])
    IN  IF call.fn = "process_tag"
        THEN process(tag_regexp(<<"v">> \o display(ret) \o GA)).result
        ELSE process(branch_regexp(SubSeq(name, 1, LastSlash(name)) \o display(ret)
                                   \o branch_regexp(name).group[8])).result

ParsedAName == call.fn \in {"process_tag", "process_branch"} /\ ret # NoMatch

\* C6 as claimed: a tuple the parser produced, rendered by display, put back
\* between the prefix and suffix of its grammar and parsed again, gives a
\* tuple equal to it in every slot of it that is not None.
C6_Original ==
    ParsedAName =>
       /\ Reparsed # NoMatch
       /\ \A k \in 1..4 : ret[k] # None => Reparsed[k] = ret[k]

\* C6 as amended: the tuple parsed again is equal to the first in the slots
\* up to its last nonzero slot and is None in every later slot, so the zeros
\* that end the first tuple come back as None; a tuple with no nonzero slot
\* renders as the empty string, and the name built from it does not parse.
C6_RoundTripUpToLastNonzero ==
    ParsedAName =>
       IF LastNonzero(ret) = 0
       THEN display(ret) = <<>> /\ Reparsed = NoMatch
       ELSE /\ Reparsed # NoMatch
            /\ \A k \in 1..4 :
                  Reparsed[k] = IF k <= LastNonzero(ret) THEN ret[k] ELSE None

\* The tag v1.0GA was parsed to (1,0,None,None), which comes back as
\* (1,None,None,None).
C6_Witness ==
    /\ call.fn = "process_tag"
    /\ call.args[1] = <<"v", "1", ".", "0">> \o GA
    /\ ret = <<1, 0, None, None>>
    /\ Reparsed = <<1, None, None, None>>

\* is_same_base_version was applied to a ref with a None slot and an other
\* that agrees with ref below that slot.
SameBaseCase ==
    /\ call.fn = "is_same_base_version"
    /\ FirstNone(call.args[1]) > 0
    /\ SamePrefix(call.args[1], call.args[2], FirstNone(call.args[1]))

\* C7 as claimed: with i the first None slot of ref and other equal to ref
\* below i, the result is ref with slot i set to other[i] + 1 when other[i]
\* is defined, else to 1 when is_ga(other), and else it is no match.
C7_Original ==
    SameBaseCase =>
       LET ref == call.args[1]
           other == call.args[2]
           i == FirstNone(ref)
       IN  ret = IF other[i] # None THEN [ref EXCEPT ![i] = other[i] + 1]
                 ELSE IF is_ga(other) THEN [ref EXCEPT ![i] = 1]
                 ELSE NoMatch

\* C7 as amended: as claimed in the first two cases; when other[i] is None
\* and other is not GA-resolved the result is ref itself, unchanged, which is
\* a match.
C7_SameBaseResult ==
    SameBaseCase =>
       LET ref == call.args[1]
           other == call.args[2]
           i == FirstNone(ref)
       IN  ret = IF other[i] # None THEN [ref EXCEPT ![i] = other[i] + 1]
                 ELSE IF is_ga(other) THEN [ref EXCEPT ![i] = 1]
                 ELSE ref

\* ref = other = (1,None,None,None) with no GA tag recorded gave ref back.
C7_Witness ==
    /\ SameBaseCase
    /\ is_ga_tag = {}
    /\ call.args = <<<<1, None, None, None>>, <<1, None, None, None>>>>
    /\ ret = <<1, None, None, None>>

\* C8 as claimed: no entry is added to either dict once a membership test on
\* that dict has run.
C8_Original ==
    [][/\ reads.is_dev_branch > 0 => is_dev_branch' = is_dev_branch
       /\ reads.is_ga_tag > 0 => is_ga_tag' = is_ga_tag]_vars

\* C8 as amended: no entry is added to is_ga_tag once a membership test on it
\* has run; is_dev_branch is tested once, by the early-exit test after the
\* tags, when it holds at most the current branch's tuple, and never again,
\* so the entries the branches add to it after that test are never read.
C8_GaTagsWrittenBeforeRead ==
    [][/\ reads.is_ga_tag > 0 => is_ga_tag' = is_ga_tag
       /\ reads.is_dev_branch > 0 => reads'.is_dev_branch = reads.is_dev_branch
       /\ reads'.is_dev_branch > reads.is_dev_branch =>
             pc = "tags" /\ idx > Len(tags) /\ is_dev_branch \subseteq {my_branch}
       /\ pc' = "done" /\ exit_status' = 0 => reads'.is_dev_branch = 1]_vars

\* A run that tested both dicts, then added a branch's entry to
\* is_dev_branch, and tested is_ga_tag again in the scan.
C8_Witness ==
    /\ pc = "done"
    /\ reads.is_dev_branch = 1
    /\ reads.is_ga_tag > 1
    /\ is_ga_tag # {}
    /\ is_dev_branch \ {my_branch} # {}

\* t with its slots k..4 set to None.
Collapsed(t, k) == [j \in 1..4 |-> IF j >= k THEN None ELSE t[j]]

\* C9: is_ga(v) holds exactly when v is in the GA tags, or for some k of 2..4
\* (Python's 1..3) the slots k..4 of v are all zero or None and v with those
\* slots set to None is in the GA tags; a positive slot is never collapsed:
\* with (1,1,None,None) recorded, is_ga((1,1,0,0)) holds, and is_ga((1,1,1,0))
\* does not unless (1,1,1,None) is recorded too.
C9_IsGaRollup ==
    call.fn = "is_ga" =>
       LET v == call.args[1]
       IN  /\ ret = (\/ v \in is_ga_tag
                     \/ \E k \in 2..4 :
                           /\ \A j \in k..4 : v[j] \in {0, None}
                           /\ <<Collapsed(v, k)[1], Collapsed(v, k)[2],
                                Collapsed(v, k)[3], Collapsed(v, k)[4]>> \in is_ga_tag)
           /\ <<1, 1, None, None>> \in is_ga_tag /\ v = <<1, 1, 0, 0>> => ret = TRUE
           /\ <<1, 1, 1, None>> \notin is_ga_tag /\ v = <<1, 1, 1, 0>> => ret = FALSE

\* With (1,None,None,None) and (1,1,None,None) recorded, is_ga was applied to
\* (1,1,1,0) and did not hold.
C9_Witness ==
    /\ call.fn = "is_ga"
    /\ is_ga_tag = {<<1, None, None, None>>, <<1, 1, None, None>>}
    /\ call.args[1] = <<1, 1, 1, 0>>
    /\ ret = FALSE

====
